---------------------------- MODULE Spec2Model ----------------------------
(*
  A model of MapacheSim's ISA engine (src/mapachesim/isa.py) and of its MIPS
  machine definition (src/mapachesim/mips.py).

  Representation choices:
    - A Python str is a sequence of one-character strings, so that split,
      replace, strip, startswith and sorting by name are computed, not assumed.
    - A bytes/bytearray object is a sequence of integers 0..255.
    - Python integers are unbounded; TLC's are 32-bit.  The instruction word
      built by int.from_bytes is therefore kept as its base-256 digits, most
      significant first, and every other quantity of the model stays below
      2^31 (field values, register values, PC).
    - An exception is a string naming the raise site:
        "InvalidBitRange"          ISAError raised at isa.py:21
        "OutOfRangeValue"          ISAError raised at isa.py:38
        "CatalogTemplateError"     ISAError raised at isa.py:96
        "InstructionWidthMismatch" ISAError raised at isa.py:102
        "UnknownOperandSigil"      ISAError raised at isa.py:146
        "UnknownInstruction"       ISAError raised at isa.py:159
      and Python's own "AttributeError", "AssertionError", "IndexError",
      "KeyError", "TypeError".  The empty string means no exception.
*)
EXTENDS Integers, Sequences, FiniteSets, TLC

VARIABLES
  isa,       \* the class the machine object was constructed from (a name)
  ifuncs,    \* self._ifuncs: the instruction functions, in matching order
  reg_list,  \* self._reg_list
  jumps,     \* self.jumps: names of the control-transfer instruction functions
  mem,       \* self._mem: None, or the bytes of the mapped region
  R,         \* self.R: the register file (index -> value)
  PC,        \* self.PC
  HI,        \* self.HI
  LO,        \* self.LO
  ncalls,    \* number of step() and decode() calls made so far (bounds the run)
  ndirect,   \* number of calls made so far, outside step(), of execute, of an
             \* instruction function, of the hook, of the register
             \* declarations, of registers() (the first of the run), and of
             \* mem_map and mem_write once the program is loaded (bounds the
             \* run)
  gen,       \* the generator registers() returned last: see NoGen
  ret        \* what the last call did: see NoRet

vars == <<isa, ifuncs, reg_list, jumps, mem, R, PC, HI, LO, ncalls, ndirect, gen, ret>>

-----------------------------------------------------------------------------
(* Bounds of the exploration *)

\* step() calls explored in one run
MaxSteps == 3
\* instruction words of mapped memory explored
MaxWords == 2

\* widths and bit positions the helper functions are explored on in full
MaxBits == 5

\* calls explored in one run, outside step(), of execute, of an instruction
\* function, of the hook, of the register declarations, of registers(), and
\* of mem_map and mem_write once the program is loaded
MaxDirect == 1

-----------------------------------------------------------------------------
(* Python integer operators, on two's-complement integers of unbounded width *)

Pow2(n) == 2 ^ n

\* a << n
Shl(a, n) == a * Pow2(n)

\* a >> n  (arithmetic: floor division)
Shr(a, n) == a \div Pow2(n)

\* ~a
BitNot(a) == (0 - a) - 1

RECURSIVE BitAnd(_, _)
\* a & b
BitAnd(a, b) ==
  IF a = 0 \/ b = 0 THEN 0
  ELSE IF a = -1 THEN b
  ELSE IF b = -1 THEN a
  ELSE (a % 2) * (b % 2) + 2 * BitAnd(a \div 2, b \div 2)

RECURSIVE BitOr(_, _)
\* a | b
BitOr(a, b) ==
  IF a = 0 THEN b
  ELSE IF b = 0 THEN a
  ELSE IF a = -1 \/ b = -1 THEN -1
  ELSE (IF a % 2 = 1 \/ b % 2 = 1 THEN 1 ELSE 0) + 2 * BitOr(a \div 2, b \div 2)

\* mask(n): (1<<n)-1
mask(n) == Shl(1, n) - 1

\* value & mask(n).  mask(n) needs 2^n; for n > 30 the mask covers every bit
\* of a non-negative model integer, so the conjunction is the value itself.
AndMask(value, n) ==
  IF n > 30 /\ value >= 0 THEN value ELSE BitAnd(value, mask(n))

\* A call's outcome: the exception raised ("" when none) and the value returned.
Ok(v) == [raised |-> "", value |-> v]
Raise(e) == [raised |-> e, value |-> 0]

\* a bit_select that shifts whatever the flag says
bit_select_shifted(value, upper_bit, lower_bit, shift) ==
  IF upper_bit < lower_bit THEN Raise("InvalidBitRange")
  ELSE Ok(Shr(BitAnd(AndMask(value, upper_bit + 1), BitNot(mask(lower_bit))),
              lower_bit))

\* bit_select(value, upper_bit, lower_bit, shift)
\* smask = mask(upper_bit+1) & ~mask(lower_bit); (value & smask) >> shamt,
\* with value & smask computed as (value & mask(upper_bit+1)) & ~mask(lower_bit).
bit_select(value, upper_bit, lower_bit, shift) ==
  IF upper_bit < lower_bit THEN Raise("InvalidBitRange")
  ELSE LET shamt == IF shift THEN lower_bit ELSE 0
           masked == BitAnd(AndMask(value, upper_bit + 1), BitNot(mask(lower_bit)))
       IN  Ok(Shr(masked, shamt))

\* a sign_extend that subtracts 2^(bits-1) where 2^bits is due
sign_extend_half(i, bits) ==
  IF BitAnd(i, BitNot(mask(bits))) # 0 THEN Raise("OutOfRangeValue")
  ELSE IF BitAnd(i, Shl(1, bits - 1)) = 0 THEN Ok(i)
  ELSE Ok(i - Shl(1, bits - 1))

\* sign_extend(i, bits)
sign_extend(i, bits) ==
  LET upper_mask == BitNot(mask(bits))
  IN  IF BitAnd(i, upper_mask) # 0 THEN Raise("OutOfRangeValue")
      ELSE IF BitAnd(i, Shl(1, bits - 1)) = 0 THEN Ok(i)
      ELSE Ok(BitOr(i, upper_mask))

-----------------------------------------------------------------------------
(* Python str operators, on sequences of one-character strings *)

\* Characters in code-point order, as far as the model's strings use them.
CodeOrder ==
  <<" ", "!", "#", "$", ",", "0", "1", "2", "3", "4", "5", "6", "7", "8", "9",
    ":", "@", "_", "a", "b", "c", "d", "e", "f", "g", "h", "i", "j", "k", "l",
    "m", "n", "o", "p", "q", "r", "s", "t", "u", "v", "w", "x", "y", "z">>

Ord(c) == CHOOSE k \in 1..Len(CodeOrder) : CodeOrder[k] = c

RECURSIVE StrLess(_, _)
\* a < b for str
StrLess(a, b) ==
  IF b = << >> THEN FALSE
  ELSE IF a = << >> THEN TRUE
  ELSE IF Head(a) = Head(b) THEN StrLess(Tail(a), Tail(b))
  ELSE Ord(Head(a)) < Ord(Head(b))

\* s.startswith(p)
StartsWith(s, p) == Len(s) >= Len(p) /\ SubSeq(s, 1, Len(p)) = p

\* s.replace(old, new) for a single character old and a new of at most one
\* character
Replace(s, old, new) ==
  IF new = << >> THEN SelectSeq(s, LAMBDA c : c # old)
  ELSE [k \in 1..Len(s) |-> IF s[k] = old THEN new[1] ELSE s[k]]

\* s.split(sep) for a single-character separator: the stretches between
\* consecutive separators, always at least one part
Split(s, sep) ==
  LET seps == {k \in 1..Len(s) : s[k] = sep}
      \* the position of the j-th separator; 0 and Len(s)+1 bracket the string
      At(j) == IF j = 0 THEN 0
               ELSE IF j > Cardinality(seps) THEN Len(s) + 1
               ELSE CHOOSE p \in seps : Cardinality({q \in seps : q < p}) = j - 1
  IN  [j \in 1..(Cardinality(seps) + 1) |-> SubSeq(s, At(j - 1) + 1, At(j) - 1)]

\* s.split(): split on runs of whitespace, no empty parts
SplitWs(s) == SelectSeq(Split(s, " "), LAMBDA part : part # << >>)

\* str.join(' ', parts)
JoinSp(parts) ==
  LET F[k \in 0..Len(parts)] ==
        IF k = 0 THEN << >>
        ELSE IF k = 1 THEN parts[1]
        ELSE F[k - 1] \o <<" ">> \o parts[k]
  IN  F[Len(parts)]

Digits == <<"0", "1", "2", "3", "4", "5", "6", "7", "8", "9",
            "a", "b", "c", "d", "e", "f">>

RECURSIVE ToBase(_, _)
\* the digits of n >= 0 in the given base, no leading zeros ("0" for 0)
ToBase(n, base) ==
  IF n < base THEN <<Digits[n + 1]>>
  ELSE Append(ToBase(n \div base, base), Digits[(n % base) + 1])

\* str(n), as an f-string renders an int
str(n) == IF n < 0 THEN <<"-">> \o ToBase(0 - n, 10) ELSE ToBase(n, 10)

\* hex(n)
hex(n) ==
  IF n < 0 THEN <<"-", "0", "x">> \o ToBase(0 - n, 16)
  ELSE <<"0", "x">> \o ToBase(n, 16)

-----------------------------------------------------------------------------
(* The machine classes.  Mips is the class of mips.py; the others are the
   inputs the engine is run on besides it: the base class itself and
   subclasses that declare other instruction functions.  A class is its
   methods in declaration order (name, docstring, body), the registers its
   __init__ declares, the functions it puts in self.jumps, and its endian. *)

Prefix == <<"i","n","s","t","r","u","c","t","i","o","n","_">>
Hook == <<"f","i","n","a","l","i","z","e","_","e","x","e","c","u","t","i","o","n">>

name_j == Prefix \o <<"j">>
name_add == Prefix \o <<"a","d","d">>
name_addi == Prefix \o <<"a","d","d","i">>
name_nop == Prefix \o <<"n","o","p">>
name_sub == Prefix \o <<"s","u","b">>

\* 'jump: 000010 aaaaaaaaaaaaaaaaaaaaaaaaaa : j @a'
doc_j ==
  <<"j","u","m","p",":"," ","0","0","0","0","1","0"," ","a","a","a","a","a","a","a","a","a",
     "a","a","a","a","a","a","a","a","a","a","a","a","a","a","a","a","a"," ",":"," ","j"," ",
     "@","a">>
\* 'add : 000000 sssss ttttt ddddd xxxxx 100000: addi $d $s $t'
doc_add ==
  <<"a","d","d"," ",":"," ","0","0","0","0","0","0"," ","s","s","s","s","s"," ","t","t","t",
     "t","t"," ","d","d","d","d","d"," ","x","x","x","x","x"," ","1","0","0","0","0","0",":",
     " ","a","d","d","i"," ","$","d"," ","$","s"," ","$","t">>
\* 'add immediate : 001000 sssss ttttt iiiiiiiiiiiiiiii : addi $t $s !i'
doc_addi ==
  <<"a","d","d"," ","i","m","m","e","d","i","a","t","e"," ",":"," ","0","0","1","0","0","0",
     " ","s","s","s","s","s"," ","t","t","t","t","t"," ","i","i","i","i","i","i","i","i","i",
     "i","i","i","i","i","i","i"," ",":"," ","a","d","d","i"," ","$","t"," ","$","s"," ","!",
     "i">>
\* 'nop : 000000 00000 00000 00000 00000 000000 : nop'
doc_nop ==
  <<"n","o","p"," ",":"," ","0","0","0","0","0","0"," ","0","0","0","0","0"," ","0","0","0",
     "0","0"," ","0","0","0","0","0"," ","0","0","0","0","0"," ","0","0","0","0","0","0"," ",
     ":"," ","n","o","p">>
\* 'add : 000000 sssss ttttt ddddd xxxxx x00000 : add $d $s $t'
doc_add_any ==
  <<"a","d","d"," ",":"," ","0","0","0","0","0","0"," ","s","s","s","s","s"," ","t","t","t",
     "t","t"," ","d","d","d","d","d"," ","x","x","x","x","x"," ","x","0","0","0","0","0"," ",
     ":"," ","a","d","d"," ","$","d"," ","$","s"," ","$","t">>
\* 'add immediate : 001000 sssss ttttt iiiiiiiiiiiiiiii : addi $t, $s, #i'
doc_addi_hash ==
  <<"a","d","d"," ","i","m","m","e","d","i","a","t","e"," ",":"," ","0","0","1","0","0","0",
     " ","s","s","s","s","s"," ","t","t","t","t","t"," ","i","i","i","i","i","i","i","i","i",
     "i","i","i","i","i","i","i"," ",":"," ","a","d","d","i"," ","$","t",","," ","$","s",",",
     " ","#","i">>
\* 'sub : 000000 sssss ttttt ddddd xxxxx 10001 : sub $d $s $t'   (31 bits)
doc_sub_short ==
  <<"s","u","b"," ",":"," ","0","0","0","0","0","0"," ","s","s","s","s","s"," ","t","t","t",
     "t","t"," ","d","d","d","d","d"," ","x","x","x","x","x"," ","1","0","0","0","1"," ",":",
     " ","s","u","b"," ","$","d"," ","$","s"," ","$","t">>
\* 'add immediate : 0011 ii sssss ttttt ii 10 iiiiiiiiiiii : addi $t $s !i'
doc_addi_split ==
  <<"a","d","d"," ","i","m","m","e","d","i","a","t","e"," ",":"," ","0","0","1","1"," ","i",
     "i"," ","s","s","s","s","s"," ","t","t","t","t","t"," ","i","i"," ","1","0"," ","i","i",
     "i","i","i","i","i","i","i","i","i","i"," ",":"," ","a","d","d","i"," ","$","t"," ","$",
     "s"," ","!","i">>

\* A method: its name, its docstring, and which of the method bodies of
\* mips.py it runs.
Method(name, doc, body) == [name |-> name, doc |-> doc, body |-> body]

instruction_j == Method(name_j, doc_j, "instruction_j")
instruction_add == Method(name_add, doc_add, "instruction_add")
instruction_addi == Method(name_addi, doc_addi, "instruction_addi")
instruction_nop == Method(name_nop, doc_nop, "instruction_nop")
finalize_execution == Method(Hook, << >>, "finalize_execution")

\* class Mips(IsaDefinition), mips.py
Mips ==
  [methods |-> <<instruction_j, instruction_add, instruction_addi,
                 instruction_nop, finalize_execution>>,
   registers |-> TRUE, jumps |-> {name_j}, endian |-> "big"]

\* class IsaDefinition itself: no instruction functions, no registers, no hook
IsaDefinition ==
  [methods |-> << >>, registers |-> FALSE, jumps |-> {}, endian |-> "big"]

\* nop declared before an add whose template also matches the all-zero word
Ambig ==
  [methods |-> <<instruction_nop,
                 Method(name_add, doc_add_any, "instruction_add"),
                 instruction_addi, finalize_execution>>,
   registers |-> TRUE, jumps |-> {}, endian |-> "big"]

\* an addi whose disassembly template uses the sigil '#'
Sigil ==
  [methods |-> <<Method(name_addi, doc_addi_hash, "instruction_addi"),
                 instruction_nop, finalize_execution>>,
   registers |-> TRUE, jumps |-> {}, endian |-> "big"]

\* Mips plus a sub whose bit template has 31 characters
Short ==
  [methods |-> <<instruction_j, instruction_add, instruction_addi,
                 instruction_nop,
                 Method(name_sub, doc_sub_short, "instruction_add"),
                 finalize_execution>>,
   registers |-> TRUE, jumps |-> {name_j}, endian |-> "big"]

\* little-endian, with an addi whose immediate is spread over three bit ranges
SplitLE ==
  [methods |-> <<instruction_j,
                 Method(name_addi, doc_addi_split, "instruction_addi"),
                 instruction_nop, finalize_execution>>,
   registers |-> TRUE, jumps |-> {name_j}, endian |-> "little"]

Classes == {"IsaDefinition", "Mips", "Ambig", "Sigil", "Short", "SplitLE"}

ClassDef(c) ==
  CASE c = "IsaDefinition" -> IsaDefinition
    [] c = "Mips" -> Mips
    [] c = "Ambig" -> Ambig
    [] c = "Sigil" -> Sigil
    [] c = "Short" -> Short
    [] c = "SplitLE" -> SplitLE

\* self.isize, set in IsaDefinition.__init__ and overridden by no class here
isize == 4

\* self.endian
endian == ClassDef(isa).endian

-----------------------------------------------------------------------------
(* IsaDefinition.__init__: self._ifuncs *)

RECURSIVE Insert(_, _)
\* m put into the name-sorted sequence s
Insert(s, m) ==
  IF s = << >> THEN <<m>>
  ELSE IF StrLess(m.name, Head(s).name) THEN <<m>> \o s
  ELSE <<Head(s)>> \o Insert(Tail(s), m)

\* dir(self), restricted to the class's own methods: their names, sorted
Dir(methods) ==
  LET F[k \in 0..Len(methods)] ==
        IF k = 0 THEN << >> ELSE Insert(F[k - 1], methods[k])
  IN  F[Len(methods)]

\* [getattr(self,f) for f in dir(self) if f.startswith('instruction_')]
InitIfuncs(methods) ==
  SelectSeq(Dir(methods), LAMBDA m : StartsWith(m.name, Prefix))

\* hasattr(self, 'finalize_execution')
HasHook == \E k \in 1..Len(ClassDef(isa).methods) : ClassDef(isa).methods[k].name = Hook

-----------------------------------------------------------------------------
(* Registers: make_register, make_register_file, and Mips.__init__ *)

\* Python's None, where a bytearray or a dict may stand instead
None == <<-1>>

\* make_register(name, bits): the entry appended to self._reg_list
\* (setattr(self, name, 0) is the variable's initial value)
make_register(rl, name, bits) ==
  Append(rl, [rtype |-> "reg", name |-> name, bits |-> bits,
              size |-> None, rnames |-> None])

\* make_register_file(name, size, bits, rnames)
make_register_file(rl, name, size, bits, rnames) ==
  LET given == IF rnames = None
               THEN [x \in 0..(size - 1) |-> <<"$">> \o name \o str(x)]
               ELSE rnames
  IN  Append(rl, [rtype |-> "file", name |-> name, bits |-> bits,
                  size |-> size, rnames |-> given])

mips_rnames ==
  LET names == <<
    <<"$","0">>, <<"$","a","t">>, <<"$","v","0">>, <<"$","v","1">>,
    <<"$","a","0">>, <<"$","a","1">>, <<"$","a","2">>, <<"$","a","3">>,
    <<"$","t","0">>, <<"$","t","1">>, <<"$","t","2">>, <<"$","t","3">>,
    <<"$","t","4">>, <<"$","t","5">>, <<"$","t","6">>, <<"$","t","7">>,
    <<"$","s","0">>, <<"$","s","1">>, <<"$","s","2">>, <<"$","s","3">>,
    <<"$","s","4">>, <<"$","s","5">>, <<"$","s","6">>, <<"$","s","7">>,
    <<"$","t","8">>, <<"$","t","9">>, <<"$","k","0">>, <<"$","k","1">>,
    <<"$","g","p">>, <<"$","s","p">>, <<"$","f","p">>, <<"$","r","a">> >>
  IN  [x \in 0..31 |-> names[x + 1]]

\* self._reg_list after Mips.__init__ (mips.py:20-23)
MipsRegList ==
  make_register(
    make_register(
      make_register(
        make_register_file(<< >>, <<"R">>, 32, 32, mips_rnames),
        <<"P","C">>, 32),
      <<"H","I">>, 32),
    <<"L","O">>, 32)

\* hasattr(self, name), for the attributes the register declarations create
HasAttr(name) == \E k \in 1..Len(reg_list) : reg_list[k].name = name

-----------------------------------------------------------------------------
(* Memory: mem_map, mem_read, mem_write *)

Min(a, b) == IF a < b THEN a ELSE b

\* b[lo:hi] for 0 <= lo
Slice(b, lo, hi) == SubSeq(b, lo + 1, Min(hi, Len(b)))

\* bytearray(size)
mem_map(start_address, size) == [k \in 1..size |-> 0]

\* a read that fills what lies past the end of memory with zero bytes
mem_read_padded(start_addr, size) ==
  IF mem = None THEN Raise("TypeError")
  ELSE Ok([k \in 1..size |->
             IF start_addr + k <= Len(mem) THEN mem[start_addr + k] ELSE 0])

\* self._mem[start_addr:start_addr+size]
mem_read(start_addr, size) ==
  IF mem = None THEN Raise("TypeError")
  ELSE Ok(Slice(mem, start_addr, start_addr + size))

\* self._mem[start_addr:start_addr+len(data)] = data: the slice is replaced
\* by data, whatever its length (a slice that reaches past the end is cut
\* there, so the bytearray can grow)
mem_write(start_addr, data) ==
  IF mem = None THEN Raise("TypeError")
  ELSE LET lo == Min(start_addr, Len(mem))
           hi == Min(start_addr + Len(data), Len(mem))
       IN  Ok(SubSeq(mem, 1, lo) \o data \o SubSeq(mem, hi + 1, Len(mem)))

-----------------------------------------------------------------------------
(* The pattern decode engine: _extract_pattern, _pattern_match, decode *)

\* _extract_pattern(func)
_extract_pattern(func) ==
  LET parts == Split(Replace(func.doc, " ", << >>), ":")
  IN  IF Len(parts) < 2 THEN Raise("IndexError")
      ELSE IF Len(parts[2]) # isize * 8 THEN Raise("CatalogTemplateError")
      ELSE Ok(parts[2])

\* int.from_bytes(instr, self.endian), as base-256 digits, most significant first
int_from_bytes(instr, byteorder) ==
  IF byteorder = "big" THEN instr
  ELSE [k \in 1..Len(instr) |-> instr[Len(instr) + 1 - k]]

\* (instr_as_integer >> k) & 0x1
BitAt(digits, k) ==
  LET d == k \div 8
  IN  IF d >= Len(digits) THEN 0
      ELSE BitAnd(Shr(digits[Len(digits) - d], k % 8), 1)

\* [(instr_as_integer>>(s-1)) & 0x1 for s in range(self.isize*8,0,-1)]
instr_as_list_of_bits(instr) ==
  LET digits == int_from_bytes(instr, endian)
  IN  [j \in 1..(isize * 8) |-> BitAt(digits, isize * 8 - j)]

\* fields[c] of the defaultdict(int)
FieldGet(fields, c) == IF c \in DOMAIN fields THEN fields[c] ELSE 0

\* a loop body that forgets the shift: fields[bpattern] = fields[bpattern] | bit
FieldPush_noshift(fields, bpattern, bit) ==
  (bpattern :> BitOr(FieldGet(fields, bpattern), bit)) @@ fields

\* the loop body's else branch: fields[bpattern] = (fields[bpattern] << 1) | bit
FieldPush(fields, bpattern, bit) ==
  (bpattern :> BitOr(Shl(FieldGet(fields, bpattern), 1), bit)) @@ fields

\* one pass of the loop of _pattern_match, on what the passes before left:
\* none once a literal bit has mismatched (the function has returned None)
MatchStep(acc, bpattern, bit) ==
  IF acc.none THEN acc
  ELSE IF bpattern = "0" /\ bit = 1 THEN [none |-> TRUE, fields |-> << >>]
  ELSE IF bpattern = "1" /\ bit = 0 THEN [none |-> TRUE, fields |-> << >>]
  ELSE [none |-> FALSE, fields |-> FieldPush(acc.fields, bpattern, bit)]

RECURSIVE MatchRange(_, _, _, _, _)
\* the passes lo..hi of the loop, in order.  The range is halved, and the
\* state the first half leaves is computed before the second half starts,
\* only to keep the evaluation shallow.
MatchRange(pattern, bits, lo, hi, acc) ==
  IF lo > hi THEN acc
  ELSE IF lo = hi THEN MatchStep(acc, pattern[lo], bits[lo])
  ELSE LET mid == (lo + hi) \div 2
       IN  CHOOSE r \in { MatchRange(pattern, bits, mid + 1, hi, left) :
                            left \in {MatchRange(pattern, bits, lo, mid, acc)} } : TRUE

\* the loop of _pattern_match over zip(pattern, instr_as_list_of_bits)
MatchLoop(pattern, bits) ==
  MatchRange(pattern, bits, 1, Min(Len(pattern), Len(bits)),
             [none |-> FALSE, fields |-> << >>])

\* _pattern_match(ifunc, instr): raised, or None (none = TRUE), or the fields
_pattern_match(ifunc, instr) ==
  IF Len(instr) # isize
  THEN [raised |-> "InstructionWidthMismatch", none |-> TRUE, fields |-> << >>]
  ELSE LET pattern == _extract_pattern(ifunc)
       IN  IF pattern.raised # ""
           THEN [raised |-> pattern.raised, none |-> TRUE, fields |-> << >>]
           ELSE LET m == MatchLoop(pattern.value, instr_as_list_of_bits(instr))
                IN  [raised |-> "", none |-> m.none, fields |-> m.fields]

NoFunc == Method(<< >>, << >>, "")

RECURSIVE DecodeFrom(_, _)
\* the for loop of decode, from the k-th entry of self._ifuncs on
DecodeFrom(k, instr) ==
  IF k > Len(ifuncs)
  THEN [raised |-> "UnknownInstruction", ifunc |-> NoFunc, ifield |-> << >>]
  ELSE LET ifield == _pattern_match(ifuncs[k], instr)
       IN  IF ifield.raised # ""
           THEN [raised |-> ifield.raised, ifunc |-> NoFunc, ifield |-> << >>]
           ELSE IF ~ifield.none
           THEN [raised |-> "", ifunc |-> ifuncs[k], ifield |-> ifield.fields]
           ELSE DecodeFrom(k + 1, instr)

\* decode(instr)
decode(instr) == DecodeFrom(1, instr)

-----------------------------------------------------------------------------
(* The disassembly formatter: _extract_asm, _format_asm, istring *)

RECURSIVE LStrip(_)
LStrip(s) == IF s # << >> /\ Head(s) = " " THEN LStrip(Tail(s)) ELSE s

RECURSIVE RStrip(_)
RStrip(s) ==
  IF s # << >> /\ s[Len(s)] = " " THEN RStrip(SubSeq(s, 1, Len(s) - 1)) ELSE s

\* s.strip()
Strip(s) == RStrip(LStrip(s))

\* _extract_asm(ifunction)
_extract_asm(ifunction) ==
  LET parts == Split(ifunction.doc, ":")
  IN  IF Len(parts) < 3 THEN Raise("IndexError")
      ELSE LET clean_pattern == Strip(Replace(parts[3], ",", <<" ">>))
           IN  Ok(JoinSp(SplitWs(clean_pattern)))

\* operand_field(part, indicator)
operand_field(part, ifield) ==
  LET fchar == Tail(part)
  IN  IF Len(fchar) # 1 THEN Raise("AssertionError")
      ELSE IF fchar[1] \notin DOMAIN ifield THEN Raise("AttributeError")
      ELSE Ok(ifield[fchar[1]])

\* a formatter that renders a '!' operand in decimal
FormatPart_decimal(i, part, ifield) ==
  IF i = 0 THEN Ok(part)
  ELSE IF StartsWith(part, <<"$">>)
  THEN LET rnum == operand_field(part, ifield)
       IN  IF rnum.raised # "" THEN rnum ELSE Ok(<<"$">> \o str(rnum.value))
  ELSE IF StartsWith(part, <<"@">>)
  THEN LET addr == operand_field(part, ifield)
       IN  IF addr.raised # "" THEN addr ELSE Ok(hex(Shl(addr.value, 2)))
  ELSE IF StartsWith(part, <<"!">>)
  THEN LET immed == operand_field(part, ifield)
       IN  IF immed.raised # "" THEN immed ELSE Ok(str(immed.value))
  ELSE Raise("UnknownOperandSigil")

\* one pass of the loop of _format_asm: the token appended for part i
FormatPart(i, part, ifield) ==
  IF i = 0 THEN Ok(part)
  ELSE IF StartsWith(part, <<"$">>)
  THEN LET rnum == operand_field(part, ifield)
       IN  IF rnum.raised # "" THEN rnum ELSE Ok(<<"$">> \o str(rnum.value))
  ELSE IF StartsWith(part, <<"@">>)
  THEN LET addr == operand_field(part, ifield)
       IN  IF addr.raised # "" THEN addr ELSE Ok(hex(Shl(addr.value, 2)))
  ELSE IF StartsWith(part, <<"!">>)
  THEN LET immed == operand_field(part, ifield)
       IN  IF immed.raised # "" THEN immed ELSE Ok(hex(immed.value))
  ELSE Raise("UnknownOperandSigil")

\* _format_asm(asm_pattern, ifield)
_format_asm(asm_pattern, ifield) ==
  LET parts == SplitWs(asm_pattern)
      F[k \in 0..Len(parts)] ==
        IF k = 0 THEN Ok(<< >>)
        ELSE LET prev == F[k - 1]
                 tok == FormatPart(k - 1, parts[k], ifield)
             IN  IF prev.raised # "" THEN prev
                 ELSE IF tok.raised # "" THEN tok
                 ELSE Ok(Append(prev.value, tok.value))
      instruction == F[Len(parts)]
  IN  IF instruction.raised # "" THEN instruction
      ELSE Ok(JoinSp(instruction.value))

\* istring(decoded_instr)
istring(ifunction, ifield) ==
  LET asm_pattern == _extract_asm(ifunction)
  IN  IF asm_pattern.raised # "" THEN asm_pattern
      ELSE _format_asm(asm_pattern.value, ifield)

-----------------------------------------------------------------------------
(* The instruction functions of mips.py and its finalize hook.  Each takes
   the registers it may touch and returns them with the exception raised. *)

Regs(r, pc) == [raised |-> "", R |-> r, PC |-> pc]
RegsRaise(e, r, pc) == [raised |-> e, R |-> r, PC |-> pc]

\* getattr(ifield, c)
Field(ifield, c) ==
  IF c \in DOMAIN ifield THEN Ok(ifield[c]) ELSE Raise("AttributeError")

\* self.R[k], read
ReadR(r, k) ==
  IF k.raised # "" THEN k
  ELSE IF k.value \in DOMAIN r THEN Ok(r[k.value]) ELSE Raise("KeyError")

\* self.R[k] = v: a dict takes a new key
WriteR(r, k, v) == [x \in (DOMAIN r) \cup {k} |-> IF x = k THEN v ELSE r[x]]

\* the first exception of a sequence of evaluations, in evaluation order
FirstRaised(outcomes) ==
  LET bad == {k \in 1..Len(outcomes) : outcomes[k].raised # ""}
  IN  IF bad = {} THEN ""
      ELSE outcomes[CHOOSE k \in bad : \A j \in bad : k <= j].raised

\* a j that adds the target field unshifted
Do_instruction_j_unshifted(ifield, r, pc) ==
  LET upper_bits == bit_select(pc + 4, 31, 28, FALSE)
      a == Field(ifield, "a")
      e == FirstRaised(<<upper_bits, a>>)
  IN  IF e # "" THEN RegsRaise(e, r, pc)
      ELSE Regs(r, upper_bits.value + a.value)

\* Mips.instruction_j
Do_instruction_j(ifield, r, pc) ==
  LET upper_bits == bit_select(pc + 4, 31, 28, FALSE)
      a == Field(ifield, "a")
      e == FirstRaised(<<upper_bits, a>>)
  IN  IF e # "" THEN RegsRaise(e, r, pc)
      ELSE Regs(r, upper_bits.value + Shl(a.value, 2))

\* Mips.instruction_add
Do_instruction_add(ifield, r, pc) ==
  LET rs == ReadR(r, Field(ifield, "s"))
      rt == ReadR(r, Field(ifield, "t"))
      d == Field(ifield, "d")
      e == FirstRaised(<<rs, rt, d>>)
  IN  IF e # "" THEN RegsRaise(e, r, pc)
      ELSE Regs(WriteR(r, d.value, rs.value + rt.value), pc)

\* Mips.instruction_addi
Do_instruction_addi(ifield, r, pc) ==
  LET rs == ReadR(r, Field(ifield, "s"))
      i == Field(ifield, "i")
      imm == IF i.raised # "" THEN i ELSE sign_extend(i.value, 16)
      t == Field(ifield, "t")
      e == FirstRaised(<<rs, imm, t>>)
  IN  IF e # "" THEN RegsRaise(e, r, pc)
      ELSE Regs(WriteR(r, t.value, rs.value + imm.value), pc)

\* Mips.instruction_nop
Do_instruction_nop(ifield, r, pc) == Regs(r, pc)

\* execute(decoded_instr): ifunction(ifield)
execute(ifunction, ifield, r, pc) ==
  CASE ifunction.body = "instruction_j" -> Do_instruction_j(ifield, r, pc)
    [] ifunction.body = "instruction_add" -> Do_instruction_add(ifield, r, pc)
    [] ifunction.body = "instruction_addi" -> Do_instruction_addi(ifield, r, pc)
    [] ifunction.body = "instruction_nop" -> Do_instruction_nop(ifield, r, pc)

\* a hook that never advances the PC
FinalizePC_never(ifunction, pc) == pc

\* a hook that advances the PC whatever the instruction
FinalizePC_always(ifunction, pc) == pc + 4

\* the PC that Mips.finalize_execution leaves (mips.py:47-48)
FinalizePC(ifunction, pc) ==
  IF ifunction.name \notin jumps THEN pc + 4 ELSE pc

\* a hook that leaves R[0] as the instruction left it
FinalizeR_keep(r) == r

\* the R[0] that Mips.finalize_execution leaves (mips.py:46)
FinalizeR(r) == WriteR(r, 0, 0)

\* Mips.finalize_execution(decoded_instr)
finalize_execution_hook(ifunction, r, pc) ==
  Regs(FinalizeR(r), FinalizePC(ifunction, pc))

\* a fetch that reads the word after the one at PC
fetch_next ==
  IF ~HasAttr(<<"P","C">>) THEN Raise("AttributeError")
  ELSE mem_read(PC + isize, isize)

\* fetch()
fetch ==
  IF ~HasAttr(<<"P","C">>) THEN Raise("AttributeError")
  ELSE mem_read(PC, isize)

-----------------------------------------------------------------------------
(* step() *)

\* What a call left behind: which call (op), the exception it raised, the
\* phases of step() that were entered, the bytes fetched or passed to decode,
\* the decoded pair, and the string step() returned.
NoRet ==
  [op |-> "none", raised |-> "", phases |-> << >>, instr |-> << >>,
   ifunc |-> NoFunc, ifield |-> << >>, value |-> << >>]

\* The generator object registers() returned last: whether there is one
\* (live), how many triples it has yielded (pos), and whether it has run to
\* its end (done).  Before the first registers() call there is none.
NoGen == [live |-> FALSE, pos |-> 0, done |-> FALSE]

\* what step() leaves: the registers, and the record of the call
StepResult(r, pc, raised, phases, instr, ifunction, ifield, value) ==
  [R |-> r, PC |-> pc,
   ret |-> [op |-> "step", raised |-> raised, phases |-> phases, instr |-> instr,
            ifunc |-> ifunction, ifield |-> ifield, value |-> value]]

\* isa.py:180: return self.istring(decoded_instr)
StepReturn(instr, ifunction, ifield, finalized, phases, text) ==
  StepResult(finalized.R, finalized.PC, text.raised, phases, instr,
             ifunction, ifield, IF text.raised # "" THEN << >> ELSE text.value)

\* isa.py:178-179: the hook, if the class has one
StepFinalize(instr, ifunction, ifield, executed) ==
  IF executed.raised # ""
  THEN StepResult(executed.R, executed.PC, executed.raised,
                  <<"fetch", "decode", "execute">>, instr, ifunction, ifield, << >>)
  ELSE IF HasHook
  THEN StepReturn(instr, ifunction, ifield,
                  finalize_execution_hook(ifunction, executed.R, executed.PC),
                  <<"fetch", "decode", "execute", "finalize", "istring">>,
                  istring(ifunction, ifield))
  ELSE StepReturn(instr, ifunction, ifield, executed,
                  <<"fetch", "decode", "execute", "istring">>,
                  istring(ifunction, ifield))

\* a step() that, when decode fails, skips the word: runs the hook's PC
\* update and then raises
StepExecute_skip(instr, decoded_instr) ==
  IF decoded_instr.raised # ""
  THEN StepResult(R, PC + isize, decoded_instr.raised,
                  <<"fetch", "decode", "finalize">>, instr, NoFunc, << >>, << >>)
  ELSE StepFinalize(instr, decoded_instr.ifunc, decoded_instr.ifield,
                    execute(decoded_instr.ifunc, decoded_instr.ifield, R, PC))

\* isa.py:177: self.execute(decoded_instr)
StepExecute(instr, decoded_instr) ==
  IF decoded_instr.raised # ""
  THEN StepResult(R, PC, decoded_instr.raised, <<"fetch", "decode">>, instr,
                  NoFunc, << >>, << >>)
  ELSE StepFinalize(instr, decoded_instr.ifunc, decoded_instr.ifield,
                    execute(decoded_instr.ifunc, decoded_instr.ifield, R, PC))

\* isa.py:176: decoded_instr = self.decode(instr_mem)
StepDecode(instr_mem) ==
  IF instr_mem.raised # ""
  THEN StepResult(R, PC, instr_mem.raised, <<"fetch">>, << >>, NoFunc, << >>, << >>)
  ELSE StepExecute(instr_mem.value, decode(instr_mem.value))

\* step(): isa.py:175: instr_mem = self.fetch(), and the rest of the call
StepOutcome == StepDecode(fetch)

-----------------------------------------------------------------------------
(* The state machine *)

\* The instruction words the runs are loaded with and decode is called on.
Words ==
  { <<33, 8, 0, 4>>,        \* 21 08 00 04  addi: s=8 t=8 i=4
    <<32, 0, 0, 5>>,        \* 20 00 00 05  addi: s=0 t=0 i=5
    <<33, 9, 255, 255>>,    \* 21 09 ff ff  addi: s=8 t=9 i=0xffff
    <<1, 9, 0, 32>>,        \* 01 09 00 20  add:  s=8 t=9 d=0
    <<8, 0, 0, 0>>,         \* 08 00 00 00  j: a=0
    <<8, 0, 0, 1>>,         \* 08 00 00 01  j: a=1
    <<11, 255, 255, 255>>,  \* 0b ff ff ff  j: a=0x3ffffff
    <<0, 0, 0, 0>>,         \* nop
    <<255, 255, 255, 255>>, \* no Mips instruction
    <<4, 32, 8, 49>>,       \* 31 08 20 04 little-endian: the split addi, i=4
    <<1, 0, 0, 8>> }        \* 08 00 00 01 little-endian: j, a=1

\* The state after construction: Mips.__init__, or IsaDefinition.__init__ alone
Init ==
  /\ isa \in Classes
  /\ ifuncs = InitIfuncs(ClassDef(isa).methods)
  /\ reg_list = IF ClassDef(isa).registers THEN MipsRegList ELSE << >>
  /\ jumps = ClassDef(isa).jumps
  /\ mem = None
  /\ R = IF ClassDef(isa).registers THEN [x \in 0..31 |-> 0] ELSE << >>
  /\ PC = 0
  /\ HI = 0
  /\ LO = 0
  /\ ncalls = 0
  /\ ndirect = 0
  /\ gen = NoGen
  /\ ret = NoRet

\* No step(), no direct call and no registers() call has been made yet: the
\* mem_map and mem_write calls made so far are the loading of the program.
\* Neither method tests anything; the calls made while loading are explored
\* without a count, those made later count as direct calls.
Loading == ncalls = 0 /\ ndirect = 0

\* ndirect after a mem_map or mem_write call
MemCounted == IF Loading THEN ndirect ELSE ndirect + 1

\* mem_map(start_address, size)
MemMap ==
  \E size \in {4 * w : w \in 0..MaxWords} \cup {4 * MaxWords - 2} :
    /\ Loading \/ ndirect < MaxDirect
    /\ mem' = mem_map(0, size)
    /\ ret' = [NoRet EXCEPT !.op = "mem_map"]
    /\ ndirect' = MemCounted
    /\ UNCHANGED <<isa, ifuncs, reg_list, jumps, R, PC, HI, LO, ncalls, gen>>

\* mem_write(start_addr, data), a word at a time
MemWrite ==
  \E w \in 0..(MaxWords - 1), data \in Words :
    LET written == mem_write(4 * w, data)
    IN  /\ Loading \/ ndirect < MaxDirect
        /\ mem' = IF written.raised # "" THEN mem ELSE written.value
        /\ ret' = [NoRet EXCEPT !.op = "mem_write", !.raised = written.raised]
        /\ ndirect' = MemCounted
        /\ UNCHANGED <<isa, ifuncs, reg_list, jumps, R, PC, HI, LO, ncalls, gen>>

\* step()
Step ==
  /\ ncalls < MaxSteps
  /\ LET out == StepOutcome
     IN  /\ R' = out.R
         /\ PC' = out.PC
         /\ ret' = out.ret
  /\ ncalls' = ncalls + 1
  /\ UNCHANGED <<isa, ifuncs, reg_list, jumps, mem, HI, LO, ndirect, gen>>

\* The calls below are the public methods that step() composes, made by the
\* caller itself.  Those that take a decoded instruction are made on the pair
\* decode returns for the word at PC, as in execute(decode(fetch())).
DecodedAtPC ==
  IF fetch.raised # ""
  THEN [raised |-> fetch.raised, ifunc |-> NoFunc, ifield |-> << >>]
  ELSE decode(fetch.value)

\* what a direct call leaves in ret
DirectRet(op, raised, ifunction, ifield) ==
  [NoRet EXCEPT !.op = op, !.raised = raised, !.ifunc = ifunction,
                !.ifield = ifield]

\* execute(decoded_instr), outside step(): no hook runs after it
ExecuteCall ==
  /\ ndirect < MaxDirect
  /\ \E d \in {DecodedAtPC} :
       /\ d.raised = ""
       /\ LET out == execute(d.ifunc, d.ifield, R, PC)
          IN  /\ R' = out.R
              /\ PC' = out.PC
              /\ ret' = DirectRet("execute", out.raised, d.ifunc, d.ifield)
  /\ ndirect' = ndirect + 1
  /\ UNCHANGED <<isa, ifuncs, reg_list, jumps, mem, HI, LO, ncalls, gen>>

\* self.instruction_x(ifield): any instruction function of the catalog,
\* called on the fields decoded from the word at PC (which may be the fields
\* of another instruction)
InstructionCall ==
  /\ ndirect < MaxDirect
  /\ \E d \in {DecodedAtPC} :
       /\ d.raised = ""
       /\ \E k \in 1..Len(ifuncs) :
            LET out == execute(ifuncs[k], d.ifield, R, PC)
            IN  /\ R' = out.R
                /\ PC' = out.PC
                /\ ret' = DirectRet("instruction", out.raised, ifuncs[k], d.ifield)
  /\ ndirect' = ndirect + 1
  /\ UNCHANGED <<isa, ifuncs, reg_list, jumps, mem, HI, LO, ncalls, gen>>

\* self.finalize_execution(decoded_instr), outside step(): nothing has been
\* executed before it
FinalizeCall ==
  /\ ndirect < MaxDirect
  /\ HasHook
  /\ \E d \in {DecodedAtPC} :
       /\ d.raised = ""
       /\ LET out == finalize_execution_hook(d.ifunc, R, PC)
          IN  /\ R' = out.R
              /\ PC' = out.PC
              /\ ret' = DirectRet("finalize_execution", "", d.ifunc, d.ifield)
  /\ ndirect' = ndirect + 1
  /\ UNCHANGED <<isa, ifuncs, reg_list, jumps, mem, HI, LO, ncalls, gen>>

\* make_register(name, bits), after construction, for the register PC:
\* setattr(self, name, 0) resets the register, and _reg_list gets one more
\* entry
MakeRegister ==
  /\ ndirect < MaxDirect
  /\ reg_list' = make_register(reg_list, <<"P","C">>, 32)
  /\ PC' = 0
  /\ ret' = [NoRet EXCEPT !.op = "make_register", !.value = <<"P","C">>]
  /\ ndirect' = ndirect + 1
  /\ UNCHANGED <<isa, ifuncs, jumps, mem, R, HI, LO, ncalls, gen>>

\* make_register_file(name, size, bits), after construction: setattr(self,
\* name, {x:0 for x in range(size)}) replaces the file by one of zeros, and
\* _reg_list gets one more entry, with the default display names
MakeRegisterFile ==
  /\ ndirect < MaxDirect
  /\ reg_list' = make_register_file(reg_list, <<"R">>, 32, 32, None)
  /\ R' = [x \in 0..31 |-> 0]
  /\ ret' = [NoRet EXCEPT !.op = "make_register_file", !.value = <<"R">>]
  /\ ndirect' = ndirect + 1
  /\ UNCHANGED <<isa, ifuncs, jumps, mem, PC, HI, LO, ncalls, gen>>

Next ==
  \/ MemMap
  \/ MemWrite
  \/ Step
  \/ ExecuteCall
  \/ InstructionCall
  \/ FinalizeCall
  \/ MakeRegister
  \/ MakeRegisterFile

Spec == Init /\ [][Next]_vars

-----------------------------------------------------------------------------
(* decode() called on its own: on a buffer of any length, and on the word an
   encoder builds from an instruction definition and values for its fields *)

\* the bit template of a docstring, spaces removed (the text between the
\* first and the second colon)
TemplateOf(m) == Split(Replace(m.doc, " ", << >>), ":")[2]

\* the field identifiers of a template
FieldChars(t) == {t[k] : k \in 1..Len(t)} \ {"0", "1"}

\* how many bits of a template belong to field c
FieldWidth(t, c) == Cardinality({k \in 1..Len(t) : t[k] = c})

\* values tried for a field of w bits
FieldValues(w) ==
  {v \in {0, 1, 4, 8, Pow2(w - 1), Pow2(w) - 1, (Pow2(w) - 1) \div 3} : v < Pow2(w)}

\* every assignment of tried values to the fields of a template
Assignments(t) ==
  {f \in [FieldChars(t) -> UNION {FieldValues(FieldWidth(t, c)) : c \in FieldChars(t)}] :
     \A c \in FieldChars(t) : f[c] \in FieldValues(FieldWidth(t, c))}

\* the word built from a template: literal bits in place, and the bits of
\* each field's value, most significant first, over that field's positions
EncodeBits(t, asg) ==
  [k \in 1..Len(t) |->
     IF t[k] = "0" THEN 0
     ELSE IF t[k] = "1" THEN 1
     ELSE LET later == Cardinality({j \in (k + 1)..Len(t) : t[j] = t[k]})
          IN  (asg[t[k]] \div Pow2(later)) % 2]

\* the bytes of a word of isize*8 bits, in the machine's byte order
EncodeBytes(t, asg) ==
  LET bits == EncodeBits(t, asg)
      byte(n) == bits[8*n - 7] * 128 + bits[8*n - 6] * 64 + bits[8*n - 5] * 32
                 + bits[8*n - 4] * 16 + bits[8*n - 3] * 8 + bits[8*n - 2] * 4
                 + bits[8*n - 1] * 2 + bits[8*n]
  IN  [n \in 1..isize |-> IF endian = "big" THEN byte(n) ELSE byte(isize + 1 - n)]

\* byte values the raw buffers are made of
RawBytes == {0, 1, 8, 32, 33, 49, 255}

\* buffers passed to decode: every word over RawBytes, and the program words
\* cut short or extended by a byte
RawBuffers ==
  [1..isize -> RawBytes]
    \cup {SubSeq(w, 1, n) : w \in Words, n \in 0..(isize - 1)}
    \cup {w \o <<0>> : w \in Words}

\* The encoder (the assembler's part): a word built from one of the machine's
\* instruction definitions and an assignment to its fields.
Encode ==
  /\ ncalls = 0
  /\ ret.op = "none"
  /\ \E k \in 1..Len(ifuncs) :
       /\ Len(TemplateOf(ifuncs[k])) = isize * 8
       /\ \E asg \in Assignments(TemplateOf(ifuncs[k])) :
            ret' = [NoRet EXCEPT !.op = "encode",
                                 !.instr = EncodeBytes(TemplateOf(ifuncs[k]), asg),
                                 !.ifunc = ifuncs[k], !.ifield = asg]
  /\ UNCHANGED <<isa, ifuncs, reg_list, jumps, mem, R, PC, HI, LO, ncalls, ndirect, gen>>

\* what a decode(instr) call leaves
DecodeRet(instr, decoded_instr) ==
  [op |-> "decode", raised |-> decoded_instr.raised, phases |-> << >>,
   instr |-> instr, ifunc |-> decoded_instr.ifunc,
   ifield |-> decoded_instr.ifield, value |-> << >>]

\* decode(instr): on the encoder's word if there is one, else on a raw buffer
DecodeCall ==
  /\ ncalls = 0
  /\ \E instr \in (IF ret.op = "encode" THEN {ret.instr} ELSE RawBuffers) :
       ret' = DecodeRet(instr, decode(instr))
  /\ ncalls' = ncalls + 1
  /\ UNCHANGED <<isa, ifuncs, reg_list, jumps, mem, R, PC, HI, LO, ndirect, gen>>

\* istring(decoded_instr), on the pair the decode call returned
IstringCall ==
  /\ ret.op = "decode"
  /\ ret.raised = ""
  /\ LET text == istring(ret.ifunc, ret.ifield)
     IN  ret' = [ret EXCEPT !.op = "istring", !.raised = text.raised,
                            !.value = IF text.raised # "" THEN << >> ELSE text.value]
  /\ ncalls' = ncalls + 1
  /\ UNCHANGED <<isa, ifuncs, reg_list, jumps, mem, R, PC, HI, LO, ndirect, gen>>

NextDecode == Encode \/ DecodeCall \/ IstringCall

SpecDecode == Init /\ [][NextDecode]_vars

-----------------------------------------------------------------------------
(* Properties of step(): atomicity and the program counter *)

Range(f) == {f[k] : k \in DOMAIN f}

\* the bytes step() fetches in this state do not decode
DecodeFails == fetch.raised = "" /\ decode(fetch.value).raised # ""

\* no register and no byte of memory changes over the transition
StateUnchanged ==
  R' = R /\ PC' = PC /\ HI' = HI /\ LO' = LO /\ mem' = mem /\ reg_list' = reg_list

\* C1: when decode fails inside step() (no entry matches the fetched word, or
\* the fetched buffer has the wrong length), step() raises decode's failure,
\* every register and all memory are as before the step, and neither the
\* instruction's action nor the finalize hook has been entered.
C1_DecodeFailureLeavesState ==
  [][ (ret'.op = "step" /\ DecodeFails) =>
        /\ ret'.raised = decode(fetch.value).raised
        /\ StateUnchanged
        /\ "execute" \notin Range(ret'.phases)
        /\ "finalize" \notin Range(ret'.phases) ]_vars

\* a step that failed in decode after an earlier step had changed R[8] and PC
C1_Witness ==
  /\ ret.op = "step"
  /\ ndirect = 0
  /\ ret.raised \in {"UnknownInstruction", "InstructionWidthMismatch"}
  /\ ret.phases = <<"fetch", "decode">>
  /\ ncalls = 2
  /\ PC = 4
  /\ R[8] = 4

\* C2: every step() either completes or fails leaving every register and all
\* memory as before the step, whichever phase fails (the formatting of the
\* returned text included).
C2_StepAllOrNothing ==
  [][ (ret'.op = "step" /\ ret'.raised # "") => StateUnchanged ]_vars

\* the bit template of some entry of the catalog has not isize*8 characters
MalformedCatalog ==
  \E k \in 1..Len(ifuncs) : Len(TemplateOf(ifuncs[k])) # isize * 8

\* the program has been loaded and nothing but step() calls has been made
\* since
OnlySteps == ndirect = 0

\* C6: a machine whose catalog holds a template of the wrong length does not
\* come out of construction: no step of it completes and, whatever step()
\* calls are made, none of its registers ever changes.
C6_NoRunOnMalformedCatalog ==
  (MalformedCatalog /\ OnlySteps) =>
    /\ ~(ret.op = "step" /\ ret.raised = "")
    /\ PC = 0
    /\ \A x \in DOMAIN R : R[x] = 0

\* C8: after a step() that succeeds on an instruction not tagged as a control
\* transfer, in a machine with the finalize hook, PC is the PC before the
\* step plus isize.
C8_UntaggedAdvancesPC ==
  [][ (ret'.op = "step" /\ ret'.raised = "" /\ HasHook
         /\ ret'.ifunc.name \notin jumps)
      => PC' = PC + isize ]_vars

\* the addi of 21 08 00 04 at address 0 has run: R[8] = 4 and PC = 4
C8_Witness ==
  /\ isa = "Mips"
  /\ ndirect = 0
  /\ ret.op = "step"
  /\ ret.raised = ""
  /\ ret.instr = <<33, 8, 0, 4>>
  /\ ret.ifunc.name = name_addi
  /\ ncalls = 1
  /\ PC = 4
  /\ R[8] = 4

\* program counters the arithmetic of j is tried on, up to bit 30
JumpPCs == {0, 4, Pow2(28) - 4, Pow2(28), 3 * Pow2(28) + 8, 7 * Pow2(28) + 16}

\* bits 31..28 of p+4, in place, plus a*4
JumpTarget(p, a) == (((p + 4) \div Pow2(28)) % 16) * Pow2(28) + a * 4

\* C9: the hook's increment is suppressed exactly for the tagged instructions.
\* After a successful step on a tagged instruction PC is the value its action
\* assigned, with nothing added; for j run at PC = p with field a that value
\* is bits 31..28 of p+4, in place, plus a*4 (at the PC of the step, and at
\* each of JumpPCs).  After an untagged one PC is the value the action left
\* plus isize.
C9_IncrementSuppressedIffTagged ==
  [][ (ret'.op = "step" /\ ret'.raised = "" /\ HasHook) =>
        IF ret'.ifunc.name \in jumps
        THEN /\ PC' = execute(ret'.ifunc, ret'.ifield, R, PC).PC
             /\ ret'.ifunc.body = "instruction_j" =>
                  /\ PC' = JumpTarget(PC, ret'.ifield["a"])
                  /\ \A p \in JumpPCs :
                       execute(ret'.ifunc, ret'.ifield, R, p).PC
                         = JumpTarget(p, ret'.ifield["a"])
        ELSE PC' = execute(ret'.ifunc, ret'.ifield, R, PC).PC + isize ]_vars

\* the second step ran j 0 at address 4: PC is 0, not 8
C9_Witness ==
  /\ isa \in {"Mips", "Short"}
  /\ ndirect = 0
  /\ ret.op = "step"
  /\ ret.raised = ""
  /\ ret.ifunc.name \in jumps
  /\ ret.instr = <<8, 0, 0, 0>>
  /\ ncalls = 2
  /\ PC = 0

\* C10: after any sequence of step() calls, successful or failed, R[0] is 0
\* in the MIPS machine, even when the instruction just run named register 0
\* as its destination.
C10_RegisterZero ==
  (R # << >> /\ OnlySteps) => R[0] = 0

\* the addi of 20 00 00 05 has run: its action wrote 5 to R[0]
C10_Witness ==
  /\ isa = "Mips"
  /\ ndirect = 0
  /\ ret.op = "step"
  /\ ret.raised = ""
  /\ ret.ifunc.name = name_addi
  /\ ret.ifield["t"] = 0
  /\ ret.ifield["i"] = 5
  /\ R[0] = 0

-----------------------------------------------------------------------------
(* Properties of decode() *)

\* the eight bits of a byte, most significant first
ByteBits(b) ==
  <<(b \div 128) % 2, (b \div 64) % 2, (b \div 32) % 2, (b \div 16) % 2,
    (b \div 8) % 2, (b \div 4) % 2, (b \div 2) % 2, b % 2>>

\* the bits of the word a buffer holds, most significant first: the bytes in
\* the order the machine's endianness gives them, each most significant first
WordBits(buf) ==
  [k \in 1..(8 * Len(buf)) |->
     LET n == (k - 1) \div 8 + 1
         b == IF endian = "big" THEN buf[n] ELSE buf[Len(buf) + 1 - n]
     IN  ByteBits(b)[((k - 1) % 8) + 1]]

\* every '0'/'1' character of template t equals the bit of the word under it
LiteralsMatch(t, bits) ==
  /\ Len(t) = Len(bits)
  /\ \A k \in 1..Len(t) : (t[k] = "0" => bits[k] = 0) /\ (t[k] = "1" => bits[k] = 1)

\* the positions, in self._ifuncs, of the entries whose literal bits match buf
Matching(buf) ==
  {k \in 1..Len(ifuncs) : LiteralsMatch(TemplateOf(ifuncs[k]), WordBits(buf))}

\* the positions, in the class body, of the instruction functions whose
\* literal bits match buf
DeclaredMatching(buf) ==
  {k \in 1..Len(ClassDef(isa).methods) :
     /\ StartsWith(ClassDef(isa).methods[k].name, Prefix)
     /\ LiteralsMatch(TemplateOf(ClassDef(isa).methods[k]), WordBits(buf))}

\* C3: when the literal bits of two or more entries match the word, decode
\* returns the one declared earliest in the ISA definition, whatever the
\* entries are called.
C3_EarliestDeclaredWins ==
  (ret.op = "decode" /\ ret.raised = "" /\ Len(ret.instr) = isize) =>
    \E k \in DeclaredMatching(ret.instr) :
      /\ ret.ifunc = ClassDef(isa).methods[k]
      /\ \A j \in DeclaredMatching(ret.instr) : k <= j

\* C4: for a buffer of isize bytes, the entry decode returns has every literal
\* bit equal to the word's bit; decode succeeds if and only if some entry's
\* literal bits match the word, and fails with UnknownInstruction when none
\* does.
C4_DecodeIffLiteralsMatch ==
  (ret.op = "decode" /\ Len(ret.instr) = isize) =>
    /\ ret.raised = "" => \E k \in Matching(ret.instr) : ret.ifunc = ifuncs[k]
    /\ (ret.raised = "") <=> (Matching(ret.instr) # {})
    /\ Matching(ret.instr) = {} => ret.raised = "UnknownInstruction"

\* an entry before the k-th of self._ifuncs also matches buf
HigherPriorityMatches(k, buf) == \E j \in Matching(buf) : j < k

\* C5: the word built from an instruction definition and an assignment to its
\* fields (literal bits in place, each field's bits most significant first
\* over that field's positions, contiguous or not) decodes to that definition
\* and to exactly the assigned value of every field, when no entry of higher
\* priority also matches.
C5_EncodeDecodeRoundTrip ==
  [][ (ret.op = "encode" /\ ret'.op = "decode") =>
        \A k \in 1..Len(ifuncs) :
          (ifuncs[k] = ret.ifunc /\ ~HigherPriorityMatches(k, ret.instr)) =>
            /\ ret'.raised = ""
            /\ ret'.ifunc = ret.ifunc
            /\ \A c \in DOMAIN ret.ifield :
                 c \in DOMAIN ret'.ifield /\ ret'.ifield[c] = ret.ifield[c] ]_vars

\* the addi whose immediate lies in three bit ranges, decoded from the word
\* built for s = 8, t = 4, i = 0x5555
C5_Witness ==
  /\ isa = "SplitLE"
  /\ ret.op = "decode"
  /\ ret.raised = ""
  /\ ret.ifunc.name = name_addi
  /\ ret.instr = EncodeBytes(TemplateOf(ret.ifunc), [s |-> 8, t |-> 4, i |-> 21845])
  /\ ret.ifield["s"] = 8
  /\ ret.ifield["t"] = 4
  /\ ret.ifield["i"] = 21845

\* C7: decode of a buffer whose length is not isize fails with
\* InstructionWidthMismatch, whatever the catalog contains.
C7_WrongLengthAlwaysMismatch ==
  (ret.op = "decode" /\ Len(ret.instr) # isize) =>
    ret.raised = "InstructionWidthMismatch"

-----------------------------------------------------------------------------
(* Properties of the register values *)

\* C11: every register value is unsigned: after any sequence of steps each of
\* R[0..31], PC, HI and LO is a non-negative integer.
C11_RegistersUnsigned ==
  OnlySteps =>
    /\ \A x \in DOMAIN R : R[x] >= 0
    /\ PC >= 0
    /\ HI >= 0
    /\ LO >= 0

-----------------------------------------------------------------------------
(* Properties of the disassembly *)

\* the tokens of the disassembly template of a docstring (the text after the
\* second colon, commas read as spaces)
AsmTokens(m) == SplitWs(Replace(Split(m.doc, ":")[3], ",", <<" ">>))

\* the token an operand token renders as
Rendered(tok, ifield) ==
  CASE tok[1] = "$" -> <<"$">> \o str(ifield[tok[2]])
    [] tok[1] = "@" -> hex(ifield[tok[2]] * 4)
    [] tok[1] = "!" -> hex(ifield[tok[2]])

TextAddi4 == <<"a","d","d","i"," ","$","8"," ","$","8"," ","0","x","4">>
TextAddiFFFF == <<"a","d","d","i"," ","$","8"," ","$","8"," ","0","x","f","f","f","f">>

\* C12: istring returns the template's first token followed, in template
\* order, by one rendered token per operand token, joined by single spaces:
\* '$x' as '$' and the decimal of field x, '@x' as the hexadecimal of field x
\* times 4, '!x' as the hexadecimal of the raw field x (s=8, t=8, i=4 with
\* 'addi $t $s !i' give 'addi $8 $8 0x4', and i=0xFFFF gives 0xffff); an
\* operand token with another leading character fails with
\* UnknownOperandSigil.
C12_DisassemblyFormat ==
  ret.op = "istring" =>
    LET toks == AsmTokens(ret.ifunc)
    IN  /\ IF \A k \in 2..Len(toks) : toks[k][1] \in {"$", "@", "!"}
           THEN /\ ret.raised = ""
                /\ ret.value = JoinSp([k \in 1..Len(toks) |->
                                         IF k = 1 THEN toks[1]
                                         ELSE Rendered(toks[k], ret.ifield)])
           ELSE ret.raised = "UnknownOperandSigil"
        /\ (isa = "Mips" /\ ret.instr = <<33, 8, 0, 4>>) => ret.value = TextAddi4
        /\ (isa = "Mips" /\ ret.instr = <<33, 8, 255, 255>>) => ret.value = TextAddiFFFF

\* the addi with s = 8, t = 8, i = 0xFFFF disassembled: 'addi $8 $8 0xffff'
C12_Witness ==
  /\ isa = "Mips"
  /\ ret.op = "istring"
  /\ ret.raised = ""
  /\ ret.ifunc.name = name_addi
  /\ ret.ifield["i"] = 65535
  /\ ret.value = TextAddiFFFF

\* the name an instruction function is declared under, after 'instruction_'
Mnemonic(m) == SubSeq(m.name, Len(Prefix) + 1, Len(m.name))

\* C13: for every entry of the MIPS catalog and every word that decodes to it,
\* the first token of the disassembly is the entry's own mnemonic ('j', 'add',
\* 'addi', 'nop'), so that no two entries disassemble with the same one.
C13_MnemonicIsOwnName ==
  (isa = "Mips" /\ ret.op = "istring" /\ ret.raised = "") =>
    SplitWs(ret.value)[1] = Mnemonic(ret.ifunc)

-----------------------------------------------------------------------------
(* registers() *)

\* getattr(self, name), for the attributes the register declarations create
GetAttr(name) ==
  CASE name = <<"P","C">> -> PC
    [] name = <<"H","I">> -> HI
    [] name = <<"L","O">> -> LO
    [] name = <<"R">> -> R

\* the triples the loop body of registers() yields for one entry of _reg_list
RegisterTriples(e) ==
  IF e.rtype = "reg"
  THEN << <<e.name, e.bits, GetAttr(e.name)>> >>
  ELSE [i \in 1..e.size |-> <<e.rnames[i - 1], e.bits, GetAttr(e.name)[i - 1]>>]

\* list(self.registers()): the triples the generator yields, in order
registers ==
  LET F[k \in 0..Len(reg_list)] ==
        IF k = 0 THEN << >> ELSE F[k - 1] \o RegisterTriples(reg_list[k])
  IN  F[Len(reg_list)]

\* g = self.registers(): a new generator, which has run no code yet.  The
\* first registers() call of a run is counted with the calls made outside
\* step(); a later one replaces the generator the run has.
RegistersCall ==
  /\ gen.live \/ ndirect < MaxDirect
  /\ gen' = [gen EXCEPT !.live = TRUE, !.pos = 0, !.done = FALSE]
  /\ ret' = [NoRet EXCEPT !.op = "registers"]
  /\ ndirect' = IF gen.live THEN ndirect ELSE ndirect + 1
  /\ UNCHANGED <<isa, ifuncs, reg_list, jumps, mem, R, PC, HI, LO, ncalls>>

\* what resuming the generator until it has yielded n triples, or has ended,
\* leaves: each triple is read from the machine as it is now (the loops of
\* registers() go on from where the last yield left them, over
\* self._reg_list and the registers as they are at the resumption); a
\* generator that has reached its end yields nothing more
Resumed(op, n) ==
  LET all == registers
      avail == IF gen.done \/ gen.pos >= Len(all) THEN 0 ELSE Len(all) - gen.pos
      got == IF avail = 0 THEN << >>
             ELSE SubSeq(all, gen.pos + 1, gen.pos + Min(n, avail))
  IN  [gen |-> [gen EXCEPT !.pos = gen.pos + Len(got),
                           !.done = gen.done \/ n > avail],
       ret |-> [NoRet EXCEPT !.op = op,
                             !.raised = IF op = "next" /\ n > avail
                                        THEN "StopIteration" ELSE "",
                             !.ifield = [start |-> gen.pos],
                             !.value = got]]

\* next(g): the generator runs to its next yield and hands one triple to the
\* caller, or ends and StopIteration is raised
RegistersNext ==
  /\ gen.live
  /\ LET out == Resumed("next", 1)
     IN  gen' = out.gen /\ ret' = out.ret
  /\ UNCHANGED <<isa, ifuncs, reg_list, jumps, mem, R, PC, HI, LO, ncalls, ndirect>>

\* list(g): the generator resumed until it ends
RegistersList ==
  /\ gen.live
  /\ LET out == Resumed("list", Len(registers) + 1)
     IN  gen' = out.gen /\ ret' = out.ret
  /\ UNCHANGED <<isa, ifuncs, reg_list, jumps, mem, R, PC, HI, LO, ncalls, ndirect>>

NextRegisters == Next \/ RegistersCall \/ RegistersNext \/ RegistersList

\* The enumerations are explored on the machine of mips.py.
InitMips == Init /\ isa = "Mips"

SpecRegisters == InitMips /\ [][NextRegisters]_vars

\* the triples in the order of the claim: the scalar registers in the order
\* declared, then each file's entries by index
ScalarsThenFiles ==
  LET scalars == SelectSeq(reg_list, LAMBDA e : e.rtype = "reg")
      files == SelectSeq(reg_list, LAMBDA e : e.rtype = "file")
      ordered == scalars \o files
      F[k \in 0..Len(ordered)] ==
        IF k = 0 THEN << >> ELSE F[k - 1] \o RegisterTriples(ordered[k])
  IN  F[Len(ordered)]

\* C14: registers() yields one (display name, bit width, current value) triple
\* per declared register: all scalar registers first, in the order declared,
\* then each file's entries in index order, whatever the order in which
\* scalars and files were declared.
C14_ScalarsBeforeFiles ==
  (ret.op = "list" /\ ret.ifield.start = 0) => ret.value = ScalarsThenFiles

-----------------------------------------------------------------------------
(* The helper functions sign_extend and bit_select, called on their own *)

\* widths tried beyond MaxBits, on sampled values
WideBits == {16, 30}

\* the values sign_extend is called on for a width: every value from -2^bits
\* to 2^(bits+1) for the widths up to MaxBits, the values around the sign bit
\* and around 2^bits for the wide ones
SignExtendInputs(bits) ==
  IF bits <= MaxBits THEN (0 - Pow2(bits))..Pow2(bits + 1)
  ELSE {-1, 0, 1, Pow2(bits - 1) - 1, Pow2(bits - 1), Pow2(bits - 1) + 1,
        Pow2(bits) - 1, Pow2(bits), Pow2(bits) + 1, 0 - Pow2(bits)}

\* sign_extend(i, bits)
SignExtendCall ==
  /\ ncalls = 0
  /\ \E bits \in (1..MaxBits) \cup WideBits :
       \E i \in SignExtendInputs(bits) :
         LET out == sign_extend(i, bits)
         IN  ret' = [NoRet EXCEPT !.op = "sign_extend", !.raised = out.raised,
                                  !.ifield = [i |-> i, bits |-> bits],
                                  !.value = IF out.raised # "" THEN << >>
                                            ELSE <<out.value>>]
  /\ ncalls' = ncalls + 1
  /\ UNCHANGED <<isa, ifuncs, reg_list, jumps, mem, R, PC, HI, LO, ndirect, gen>>

\* the arguments bit_select is called on: every value below 2^(MaxBits+1)
\* with every pair of positions up to MaxBits+1, and wide values with the
\* positions a 32-bit word uses
BitSelectInputs ==
  ((0..(Pow2(MaxBits + 1) - 1)) \X (0..(MaxBits + 1)) \X (0..(MaxBits + 1)))
    \cup ({4, 65535, Pow2(28), 5 * Pow2(28) + 12, Pow2(30) + Pow2(16) + 3,
           Pow2(30) + (Pow2(30) - 1)}
          \X {15, 27, 29, 30, 31} \X {0, 16, 28, 30})

\* bit_select(value, upper_bit, lower_bit, shift)
BitSelectCall ==
  /\ ncalls = 0
  /\ \E args \in BitSelectInputs, shift \in BOOLEAN :
       LET out == bit_select(args[1], args[2], args[3], shift)
       IN  ret' = [NoRet EXCEPT !.op = "bit_select", !.raised = out.raised,
                                !.ifield = [value |-> args[1], upper |-> args[2],
                                            lower |-> args[3], shift |-> shift],
                                !.value = IF out.raised # "" THEN << >>
                                          ELSE <<out.value>>]
  /\ ncalls' = ncalls + 1
  /\ UNCHANGED <<isa, ifuncs, reg_list, jumps, mem, R, PC, HI, LO, ndirect, gen>>

NextHelpers == SignExtendCall \/ BitSelectCall

SpecHelpers == Init /\ [][NextHelpers]_vars

\* C15: for bits >= 1 and 0 <= i < 2^bits, sign_extend(i, bits) returns i when
\* bit bits-1 of i is 0 and i - 2^bits otherwise; for an i with a bit set at
\* position bits or above (every negative i included) it fails with
\* OutOfRangeValue and returns nothing.
C15_SignExtend ==
  ret.op = "sign_extend" =>
    LET i == ret.ifield.i
        bits == ret.ifield.bits
    IN  IF 0 <= i /\ i < Pow2(bits)
        THEN /\ ret.raised = ""
             /\ ret.value = <<IF (i \div Pow2(bits - 1)) % 2 = 0 THEN i
                              ELSE i - Pow2(bits)>>
        ELSE ret.raised = "OutOfRangeValue" /\ ret.value = << >>

\* sign_extend(0b1000, 4) returned -8
C15_Witness ==
  /\ ret.op = "sign_extend"
  /\ ret.ifield.i = 8
  /\ ret.ifield.bits = 4
  /\ ret.raised = ""
  /\ ret.value = <<-8>>

\* bits lower..upper of a non-negative value, right-aligned:
\* floor(value / 2^lower) mod 2^(upper-lower+1).  A model integer is below
\* 2^31, so for more than 30 bits the remainder is the quotient itself.
BitsOf(value, upper, lower) ==
  LET q == value \div Pow2(lower)
  IN  IF upper - lower + 1 > 30 THEN q ELSE q % Pow2(upper - lower + 1)

\* C16: for a non-negative value and 0 <= lower <= upper, bit_select with
\* shift=True returns bits lower..upper right-aligned, and with shift=False
\* the same bits in place, all others cleared; for upper < lower it fails
\* with InvalidBitRange.
C16_BitSelect ==
  ret.op = "bit_select" =>
    LET value == ret.ifield.value
        upper == ret.ifield.upper
        lower == ret.ifield.lower
    IN  IF upper < lower
        THEN ret.raised = "InvalidBitRange"
        ELSE /\ ret.raised = ""
             /\ ret.value = <<IF ret.ifield.shift THEN BitsOf(value, upper, lower)
                              ELSE BitsOf(value, upper, lower) * Pow2(lower)>>

\* bit_select(0b111000, 3, 1, shift=True) returned 0b100
C16_Witness ==
  /\ ret.op = "bit_select"
  /\ ret.ifield.value = 56
  /\ ret.ifield.upper = 3
  /\ ret.ifield.lower = 1
  /\ ret.ifield.shift
  /\ ret.raised = ""
  /\ ret.value = <<4>>

-----------------------------------------------------------------------------
(* The order of the phases of step() *)

\* the phases of a complete step(), in the order of the claim
PhaseOrder ==
  IF HasHook THEN <<"fetch", "decode", "execute", "finalize", "istring">>
  ELSE <<"fetch", "decode", "execute", "istring">>

IsPrefix(p, q) == Len(p) <= Len(q) /\ p = SubSeq(q, 1, Len(p))

\* C17: within a step() call the phases occur in the order fetch, decode,
\* execute, finalize, disassemble, each at most once; the action is invoked
\* only after decode has succeeded and the hook only after the action has
\* returned; one instruction is processed, the one at the PC before the
\* step; and the string returned is the disassembly of that instruction.
C17_PhaseOrder ==
  [][ ret'.op = "step" =>
        LET phases == ret'.phases
            done == execute(ret'.ifunc, ret'.ifield, R, PC)
        IN  /\ phases # << >>
            /\ IsPrefix(phases, PhaseOrder)
            /\ "execute" \in Range(phases) =>
                 /\ PC + isize <= Len(mem)
                 /\ ret'.instr = SubSeq(mem, PC + 1, PC + isize)
                 /\ decode(ret'.instr).raised = ""
                 /\ ret'.ifunc = decode(ret'.instr).ifunc
                 /\ ret'.ifield = decode(ret'.instr).ifield
            /\ "finalize" \in Range(phases) =>
                 /\ done.raised = ""
                 /\ R' = finalize_execution_hook(ret'.ifunc, done.R, done.PC).R
                 /\ PC' = finalize_execution_hook(ret'.ifunc, done.R, done.PC).PC
            /\ ret'.raised = "" =>
                 /\ phases = PhaseOrder
                 /\ ret'.value = istring(ret'.ifunc, ret'.ifield).value ]_vars

\* the second step of a run: the addi at address 4 (21 09 ff ff) has run on
\* the R[8] = 4 the first step left, and its disassembly was returned
C17_Witness ==
  /\ isa = "Mips"
  /\ ndirect = 0
  /\ ret.op = "step"
  /\ ret.raised = ""
  /\ ret.phases = <<"fetch", "decode", "execute", "finalize", "istring">>
  /\ ret.instr = <<33, 9, 255, 255>>
  /\ ret.value = <<"a","d","d","i"," ","$","9"," ","$","8"," ","0","x","f","f","f","f">>
  /\ ncalls = 2
  /\ PC = 8
  /\ R[8] = 4
  /\ R[9] = 3

-----------------------------------------------------------------------------
(* The field set decode returns *)

\* C18: the keys of the field set decode returns are exactly the field
\* identifiers of the matched template: the literal characters '0' and '1'
\* are never keys, and every value is an unsigned integer.
C18_FieldSetKeys ==
  (ret.op = "decode" /\ ret.raised = "") =>
    /\ DOMAIN ret.ifield = FieldChars(TemplateOf(ret.ifunc))
    /\ \A c \in DOMAIN ret.ifield : ret.ifield[c] >= 0

-----------------------------------------------------------------------------
(* The program counter *)

\* C19: in a machine with the registers of Mips, started at PC = 0, after any
\* sequence of step() calls PC is a non-negative multiple of 4 below 2^32
\* (PC div 2^16 below 2^16), though no write to PC is masked.
C19_PCWellFormed ==
  (HasAttr(<<"P","C">>) /\ OnlySteps) =>
    /\ PC >= 0
    /\ PC % 4 = 0
    /\ PC \div Pow2(16) < Pow2(16)

\* j with the largest target, 0b ff ff ff, has run: PC = 0x0ffffffc
C19_Witness ==
  /\ isa = "Mips"
  /\ ndirect = 0
  /\ ret.op = "step"
  /\ ret.raised = ""
  /\ ret.instr = <<11, 255, 255, 255>>
  /\ PC = 4 * (Pow2(26) - 1)

-----------------------------------------------------------------------------
(* Running off the end of memory *)

\* A step() call is made.  Step is the only action that changes ncalls, and
\* it is enabled exactly when ncalls < MaxSteps.
StepCalled == ncalls < MaxSteps /\ ncalls' = ncalls + 1

\* The run loop: the caller goes on calling step() for as long as the
\* exploration allows a further call.
SpecRun == Init /\ [][Next]_vars /\ WF_ncalls(StepCalled)

\* N: the number of mapped bytes
MappedBytes == IF mem = None THEN 0 ELSE Len(mem)

\* no word of memory decodes to j: no aligned word starts with the bits 000010
NoJumpWord ==
  \A w \in 0..((MappedBytes \div 4) - 1) : mem[4 * w + 1] \div 4 # 2

AllZero == \A k \in 1..MappedBytes : mem[k] = 0

\* a step() call has failed
StepFailed == ret.op = "step" /\ ret.raised # ""

\* the run of the claim: the MIPS machine, no word that decodes to j, and no
\* call but step() since loading
RunOfSteps == isa = "Mips" /\ NoJumpWord /\ OnlySteps

\* C20: in the MIPS machine with N mapped bytes holding no word that decodes
\* to j, started at PC = 0, repeated step() calls eventually fail, after at
\* most floor(N/4) successful steps (exactly floor(N/4), each a nop, when
\* memory is all zero); once a step() has failed the next one fails with
\* PC, registers and memory unchanged; no step changes the size of memory.
C20_RunsOffTheEnd ==
  /\ []((RunOfSteps /\ ret.op = "step") =>
          /\ ret.raised = "" => (ncalls <= MappedBytes \div 4 /\ PC = 4 * ncalls)
          /\ ncalls > MappedBytes \div 4 => ret.raised # ""
          /\ (AllZero /\ ncalls <= MappedBytes \div 4) =>
               (ret.raised = "" /\ ret.ifunc = instruction_nop))
  /\ [][(isa = "Mips" /\ ret'.op = "step") =>
          /\ mem' = mem
          /\ StepFailed => (ret'.raised # "" /\ StateUnchanged)]_vars
  /\ <>(ncalls > 0 /\ (RunOfSteps => StepFailed))

\* two nops have run through 8 zero bytes and the third step() has failed
C20_Witness ==
  /\ isa = "Mips"
  /\ ndirect = 0
  /\ MappedBytes = 8
  /\ AllZero
  /\ ncalls = 3
  /\ StepFailed
  /\ PC = 8

=============================================================================
